---- MODULE Spec2Model ----
(***************************************************************************)
(* neatsheets: the keystroke notation of neatsheets/task.py, the sheets of  *)
(* neatsheets/sheet.py and the AppManager of neatsheets/app.py.            *)
(*                                                                         *)
(* A Python str is a sequence of characters; a character is a one-letter   *)
(* string, or "U+XXXX" (its code point) when it lies outside ASCII or    *)
(* is the backtick.                                                        *)
(* Objects are csv_file tagged with their class in the field "type", so     *)
(* that = is the classes' __eq__ (type(other) == ... and equal fields).    *)
(* An exception that leaves a call is a record tagged with its class.      *)
(***************************************************************************)
EXTENDS Naturals, Sequences, FiniteSets

VARIABLES
    pc,        \* the call that runs next, "done" when none does
    arg,       \* the value the run started from (a Shortcut, a str, a Task, a row)
    shortcut,  \* the Shortcut object held, None when there is none
    csv_str,   \* the str held
    task,      \* the Task object held, None when there is none
    row,       \* the dict of CSV columns held, None when there is none
    reparsed,  \* the Task parsed back from row, None when there is none
    raised,    \* the exception that left the last call, None when none did
    csv_file,  \* the CSV file build_sheet reads, None when there is none
    sheet,     \* the Sheet object held, None when there is none
    rendered,  \* what to_html hands to the template, None before
    instances, \* _AppManagerMeta.__instance: class |-> its instance
    heap,      \* the AppManager objects constructed so far, in order
    threads,   \* thread |-> where it is in its call and what it holds
    defined    \* the class statement of AppManager has completed

sheet_vars == <<csv_file, sheet, rendered>>

app_vars == <<instances, heap, threads, defined>>

vars == <<pc, arg, shortcut, csv_str, task, row, reparsed, raised, sheet_vars, app_vars>>

None == [type |-> "NoneType"]

\* No sheet is held and no row read.
NoSheet == csv_file = None /\ sheet = None /\ rendered = None

\* neatsheets.app is not imported.
NoAppManager == instances = None /\ heap = None /\ threads = None /\ defined = FALSE

----------------------------------------------------------------------------
(* class Keystroke(Enum): member name |-> value                            *)

KeystrokeValue ==
    [BACKSPACE |-> <<"U+232B">>, CMD |-> <<"U+2318">>, WINDOWS |-> <<"U+229E">>,
      CTRL |-> <<"^">>, DEL |-> <<"d", "e", "l">>, END |-> <<"e", "n", "d">>,
      ESC |-> <<"e", "s", "c">>, FN |-> <<"f", "n">>, HOME |-> <<"h", "o", "m", "e">>,
      OPT |-> <<"U+2325">>, ALT |-> <<"a", "l", "t">>, PGDN |-> <<"p", "g", "d", "n">>,
      PGUP |-> <<"p", "g", "u", "p">>, RET |-> <<"U+23CE">>, SHIFT |-> <<"U+21E7">>,
      SPACE |-> <<"s", "p", "a", "c", "e">>, TAB |-> <<"t", "a", "b">>,
      SCROLL_LOCK |-> <<"s", "c", "r", "o", "l", "l", "U+00A0", "l", "o", "c", "k">>,
      UP |-> <<"U+2191">>, DOWN |-> <<"U+2193">>, LEFT |-> <<"U+2190">>, RIGHT |-> <<"U+2192">>,
      F1 |-> <<"F", "1">>, F2 |-> <<"F", "2">>, F3 |-> <<"F", "3">>, F4 |-> <<"F", "4">>,
      F5 |-> <<"F", "5">>, F6 |-> <<"F", "6">>, F7 |-> <<"F", "7">>, F8 |-> <<"F", "8">>,
      F9 |-> <<"F", "9">>, F10 |-> <<"F", "1", "0">>, F11 |-> <<"F", "1", "1">>,
      F12 |-> <<"F", "1", "2">>,
      A |-> <<"A">>, B |-> <<"B">>, C |-> <<"C">>, D |-> <<"D">>, E |-> <<"E">>, F |-> <<"F">>,
      G |-> <<"G">>, H |-> <<"H">>, I |-> <<"I">>, J |-> <<"J">>, K |-> <<"K">>, L |-> <<"L">>,
      M |-> <<"M">>, N |-> <<"N">>, O |-> <<"O">>, P |-> <<"P">>, Q |-> <<"Q">>, R |-> <<"R">>,
      S |-> <<"S">>, T |-> <<"T">>, U |-> <<"U">>, V |-> <<"V">>, W |-> <<"W">>, X |-> <<"X">>,
      Y |-> <<"Y">>, Z |-> <<"Z">>,
      ONE |-> <<"1">>, TWO |-> <<"2">>, THREE |-> <<"3">>, FOUR |-> <<"4">>, FIVE |-> <<"5">>,
      SIX |-> <<"6">>, SEVEN |-> <<"7">>, EIGHT |-> <<"8">>, NINE |-> <<"9">>, ZERO |-> <<"0">>,
      APOSTROPHE |-> <<"'">>, BACKTICK |-> <<"U+0060">>, PERIOD |-> <<".">>, COMMA |-> <<",">>,
      SEMICOLON |-> <<";">>, QUESTION_MARK |-> <<"?">>, SLASH |-> <<"/">>, PLUS |-> <<"+">>,
      MINUS |-> <<"-">>, EQUALS |-> <<"=">>, LEFT_BRACKET |-> <<"[">>,
      RIGHT_BRACKET |-> <<"]">>, MOUSE_SCROLL |-> <<"U+21F3">> ]

KeystrokeNames == DOMAIN KeystrokeValue

\* An Enum member.
Member(name) == [type |-> "Keystroke", name |-> name]

\* The exceptions of the calls below.
ValueError(s) == [type |-> "ValueError", value |-> s]
TypeError(given) == [type |-> "TypeError", given |-> given]

IsException(r) == r.type \in {"ValueError", "TypeError"}

\* The Enum's lookup by value: the values, and the member name of each (no two
\* members share a value).
KeystrokeValues == {KeystrokeValue[n] : n \in KeystrokeNames}
KeystrokeByValue ==
    [v \in KeystrokeValues |-> CHOOSE n \in KeystrokeNames : KeystrokeValue[n] = v]

\* Keystroke(s): the member whose value is s, ValueError when there is none.
Keystroke(s) ==
    IF s \in KeystrokeValues THEN Member(KeystrokeByValue[s]) ELSE ValueError(s)

\* KeystrokeRange(*args): __init__(self, start, end) takes exactly two.
KeystrokeRange(args) ==
    IF Len(args) = 2
    THEN [type |-> "KeystrokeRange", start |-> args[1], end |-> args[2]]
    ELSE TypeError(Len(args) + 1)

\* KeystrokeSet(*keystrokes): any number of members, none included.
KeystrokeSet(keystrokes) == [type |-> "KeystrokeSet", keystrokes |-> keystrokes]

\* Shortcut(*keystrokes)
Shortcut(keystrokes) == [type |-> "Shortcut", keystrokes |-> keystrokes]

----------------------------------------------------------------------------
(* str operations                                                          *)

RECURSIVE Concat(_)
\* ''.join(parts)
Concat(parts) == IF parts = <<>> THEN <<>> ELSE Head(parts) \o Concat(Tail(parts))

RECURSIVE Join(_, _)
\* sep.join(parts)
Join(sep, parts) ==
    IF parts = <<>> THEN <<>>
    ELSE IF Len(parts) = 1 THEN parts[1]
    ELSE parts[1] \o sep \o Join(sep, Tail(parts))

RECURSIVE Split(_, _)
\* s.split(c) for a one-character c: every c separates, empty parts are kept,
\* and the empty str gives [''].
Split(s, c) ==
    IF \E i \in 1..Len(s) : s[i] = c
    THEN LET i == CHOOSE j \in 1..Len(s) : s[j] = c /\ \A k \in 1..(j - 1) : s[k] # c
         IN  <<SubSeq(s, 1, i - 1)>> \o Split(SubSeq(s, i + 1, Len(s)), c)
    ELSE <<s>>

----------------------------------------------------------------------------
(* the value property of the three kinds of group, and Shortcut.to_csv_str *)

value(k) ==
    IF k.type = "Keystroke" THEN KeystrokeValue[k.name]
    ELSE IF k.type = "KeystrokeRange"
    THEN KeystrokeValue[k.start.name] \o <<"-">> \o KeystrokeValue[k.end.name]
    ELSE Concat([i \in 1..Len(k.keystrokes) |-> KeystrokeValue[k.keystrokes[i].name]])

to_csv_str(self) ==
    Join(<<" ">>, [i \in 1..Len(self.keystrokes) |-> value(self.keystrokes[i])])

----------------------------------------------------------------------------
(* Shortcut.parse                                                          *)

\* What consuming a generator left to right gives: the exception of the first
\* item that raises, else the tuple of the items.
Gather(xs) ==
    IF \E i \in 1..Len(xs) : IsException(xs[i])
    THEN xs[CHOOSE i \in 1..Len(xs) :
                IsException(xs[i]) /\ \A j \in 1..(i - 1) : ~IsException(xs[j])]
    ELSE [type |-> "tuple", items |-> xs]

\* (Keystroke(k) for k in parts), consumed by the call's *-unpacking.
Keystrokes(parts) == Gather([i \in 1..Len(parts) |-> Keystroke(parts[i])])

\* for k in s: the characters of s, each a str of length one.
Chars(s) == [i \in 1..Len(s) |-> <<s[i]>>]

\* The third try: KeystrokeSet(*(Keystroke(k) for k in s)), ks the generator
\* consumed; a ValueError re-raises the first try's exception e.
SetOf(ks, e) == IF IsException(ks) THEN e ELSE KeystrokeSet(ks.items)

ParseAsSet(s, e) == SetOf(Keystrokes(Chars(s)), e)

\* RangeOf without the third try: a ValueError of the second re-raises e.
RangeOf_NoSet(ks, s, e) == IF IsException(ks) THEN e ELSE KeystrokeRange(ks.items)

\* The second try: KeystrokeRange(*(Keystroke(k) for k in s.split('-'))), ks the
\* generator consumed. Only a ValueError is caught, and leads to the third try;
\* the TypeError of a wrong number of arguments leaves.
RangeOf(ks, s, e) == IF IsException(ks) THEN ParseAsSet(s, e) ELSE KeystrokeRange(ks.items)

ParseAsRange(s, e) == RangeOf(Keystrokes(Split(s, "-")), s, e)

IsSetOfMembers(s) == \A i \in 1..Len(s) : <<s[i]>> \in KeystrokeValues

\* GroupOf with the tries in another order: the set before the member.
GroupOf_SetFirst(k, s) ==
    IF IsSetOfMembers(s) THEN ParseAsSet(s, k)
    ELSE IF IsException(k) THEN ParseAsRange(s, k) ELSE k

\* The first try, k == Keystroke(s): a ValueError leads to the second try.
GroupOf(k, s) == IF IsException(k) THEN ParseAsRange(s, k) ELSE k

\* The body of the loop for one s of csv_str.split(' ').
ParseGroup(s) == GroupOf(Keystroke(s), s)

\* The loop over csv_str.split(' '), which the first exception leaves.
ParseGroups(parts) == Gather([i \in 1..Len(parts) |-> ParseGroup(parts[i])])

ShortcutOf(gs) == IF IsException(gs) THEN gs ELSE Shortcut(gs.items)

\* Shortcut.parse(csv_str): the exception of the first s that raises, else the
\* Shortcut of the groups in order.
Shortcut_parse(str) == ShortcutOf(ParseGroups(Split(str, " ")))

----------------------------------------------------------------------------
(* class Task                                                              *)

\* The characters \s matches in a str pattern (those of str.isspace).
Whitespace ==
    {" ", "\t", "\n", "\r", "\f", "U+000B", "U+001C", "U+001D", "U+001E", "U+001F",
     "U+0085", "U+00A0", "U+1680", "U+2000", "U+2001", "U+2002", "U+2003", "U+2004",
     "U+2005", "U+2006", "U+2007", "U+2008", "U+2009", "U+200A", "U+2028", "U+2029",
     "U+202F", "U+205F", "U+3000"}

RECURSIVE re_split_CommaOnly(_)
\* re_split as shortcut.split(','): the whitespace around a comma is kept.
re_split_CommaOnly(s) ==
    IF \E c \in 1..Len(s) : s[c] = ","
    THEN LET c == CHOOSE j \in 1..Len(s) : s[j] = "," /\ \A k \in 1..(j - 1) : s[k] # ","
         IN  <<SubSeq(s, 1, c - 1)>> \o re_split_CommaOnly(SubSeq(s, c + 1, Len(s)))
    ELSE <<s>>

RECURSIVE re_split(_)
\* re.split(r'\s*,\s*', s): the leftmost match starts at the whitespace that
\* runs up to the first comma and ends after the whitespace that follows it.
re_split(s) ==
    IF \E c \in 1..Len(s) : s[c] = ","
    THEN LET c == CHOOSE j \in 1..Len(s) : s[j] = "," /\ \A k \in 1..(j - 1) : s[k] # ","
             i == CHOOSE j \in 1..c :
                    /\ \A k \in j..(c - 1) : s[k] \in Whitespace
                    /\ j = 1 \/ s[j - 1] \notin Whitespace
             e == CHOOSE j \in c..Len(s) :
                    /\ \A k \in (c + 1)..j : s[k] \in Whitespace
                    /\ j = Len(s) \/ s[j + 1] \notin Whitespace
         IN  <<SubSeq(s, 1, i - 1)>> \o re_split(SubSeq(s, e + 1, Len(s)))
    ELSE <<s>>

\* str.lower(), character by character.
LowerChar ==
    [A |-> "a", B |-> "b", C |-> "c", D |-> "d", E |-> "e", F |-> "f", G |-> "g",
     H |-> "h", I |-> "i", J |-> "j", K |-> "k", L |-> "l", M |-> "m", N |-> "n",
     O |-> "o", P |-> "p", Q |-> "q", R |-> "r", S |-> "s", T |-> "t", U |-> "u",
     V |-> "v", W |-> "w", X |-> "x", Y |-> "y", Z |-> "z"]

lower(s) == [i \in 1..Len(s) |-> IF s[i] \in DOMAIN LowerChar THEN LowerChar[s[i]] ELSE s[i]]

\* Task(desc, shortcut, important)
Task(desc, shortcuts, important) ==
    [type |-> "Task", desc |-> desc, shortcut |-> shortcuts, important |-> important]

\* Task.to_csv_dict(self)
to_csv_dict(self) ==
    [desc |-> self.desc,
     shortcut |-> Join(<<",", " ">>,
                       [i \in 1..Len(self.shortcut) |-> to_csv_str(self.shortcut[i])]),
     important |-> IF self.important THEN <<"t", "r", "u", "e">>
                   ELSE <<"f", "a", "l", "s", "e">>]

\* The generator of Task.parse: Shortcut.parse(s) for s in the alternatives.
ParseAlternatives(parts) == Gather([i \in 1..Len(parts) |-> Shortcut_parse(parts[i])])

\* An important column of any characters at all counts as true.
TaskOf_NonEmpty(desc, ss, important) ==
    IF IsException(ss) THEN ss
    ELSE Task(desc, ss.items, important # <<>>)

TaskOf(desc, ss, important) ==
    IF IsException(ss) THEN ss
    ELSE Task(desc, ss.items, lower(important) = <<"t", "r", "u", "e">>)

\* Task.parse(desc, shortcut, important): the exception of the first alternative
\* that raises, else the Task.
Task_parse(desc, shortcut_field, important) ==
    TaskOf(desc, ParseAlternatives(re_split(shortcut_field)), important)

----------------------------------------------------------------------------
(* The inputs of the runs.                                                 *)

\* The longest str a run starts from.
MaxLen == 5
\* The most keystrokes (members of all groups together) of a Shortcut a run
\* starts from.
MaxKeys == 4

\* The characters of the strs: members' values ("A", "F", "1", "-"), the space
\* that separates groups, and two that are no member's value alone ("f", "n")
\* but spell FN together.
Alphabet == {"A", "F", "1", "-", " ", "f", "n"}

Strs == UNION {[1..n -> Alphabet] : n \in 0..MaxLen}

\* The members the Shortcuts are built from, and those with a value of length one.
TestKeystrokes == {"F", "ONE", "F1", "MINUS", "FN"}
Glyphs == {n \in TestKeystrokes : Len(KeystrokeValue[n]) = 1}

\* A Shortcut is drawn as its members in order (names) and, for each, its place
\* in its group (marks): "K" a member that is a group, "R1" and "R2" the start
\* and end of a KeystrokeRange, "S" the first and "s" a later member of a
\* KeystrokeSet.
Marks == {"K", "R1", "R2", "S", "s"}

ValidMarks(marks) ==
    \A i \in 1..Len(marks) :
        /\ marks[i] = "R1" => i < Len(marks) /\ marks[i + 1] = "R2"
        /\ marks[i] = "R2" => i > 1 /\ marks[i - 1] = "R1"
        /\ marks[i] = "s" => i > 1 /\ marks[i - 1] \in {"S", "s"}

\* A KeystrokeSet holds members with a value of length one.
ValidNames(marks, names) ==
    \A i \in 1..Len(marks) : marks[i] \in {"S", "s"} => names[i] \in Glyphs

\* The last member of the KeystrokeSet that starts at i.
SetEnd(marks, i) ==
    CHOOSE j \in i..Len(marks) :
        /\ \A k \in (i + 1)..j : marks[k] = "s"
        /\ j = Len(marks) \/ marks[j + 1] # "s"

RECURSIVE Groups(_, _, _)
\* The groups from member i on.
Groups(marks, names, i) ==
    IF i > Len(marks) THEN <<>>
    ELSE IF marks[i] = "K" THEN <<Member(names[i])>> \o Groups(marks, names, i + 1)
    ELSE IF marks[i] = "R1"
    THEN <<KeystrokeRange(<<Member(names[i]), Member(names[i + 1])>>)>>
         \o Groups(marks, names, i + 2)
    ELSE LET j == SetEnd(marks, i)
         IN  <<KeystrokeSet([k \in 1..(j - i + 1) |-> Member(names[i + k - 1])])>>
             \o Groups(marks, names, j + 1)

Str(s) == [type |-> "str", s |-> s]

----------------------------------------------------------------------------
(* The runs: a str is parsed and the Shortcut written back, or a Shortcut  *)
(* is written and the str parsed back.                                     *)

InitStr ==
    \E s \in Strs :
        /\ arg = Str(s)
        /\ csv_str = s
        /\ shortcut = None
        /\ raised = None
        /\ pc = "parse"
        /\ task = None /\ row = None /\ reparsed = None
        /\ NoSheet /\ NoAppManager

InitShortcut ==
    \E n \in 1..MaxKeys :
        \E marks \in {m \in [1..n -> Marks] : ValidMarks(m)} :
            \E names \in {ns \in [1..n -> TestKeystrokes] : ValidNames(marks, ns)} :
                /\ arg = Shortcut(Groups(marks, names, 1))
                /\ shortcut = arg
                /\ csv_str = <<>>
                /\ raised = None
                /\ pc = "to_csv_str"
                /\ task = None /\ row = None /\ reparsed = None
                /\ NoSheet /\ NoAppManager


\* csv_str = shortcut.to_csv_str()
ToCsvStr ==
    /\ pc = "to_csv_str"
    /\ csv_str' = to_csv_str(shortcut)
    /\ pc' = IF arg.type = "str" THEN "done" ELSE "parse"
    /\ UNCHANGED <<arg, shortcut, raised, task, row, reparsed, sheet_vars, app_vars>>

\* shortcut = Shortcut.parse(csv_str)
Parse ==
    /\ pc = "parse"
    /\ LET r == Shortcut_parse(csv_str)
       IN  IF IsException(r)
           THEN /\ raised' = r
                /\ shortcut' = None
                /\ pc' = "done"
           ELSE /\ raised' = None
                /\ shortcut' = r
                /\ pc' = IF arg.type = "str" THEN "to_csv_str" ELSE "done"
    /\ UNCHANGED <<arg, csv_str, task, row, reparsed, sheet_vars, app_vars>>

Next == ToCsvStr \/ Parse

\* The runs that start from a str.
Spec == InitStr /\ [][Next]_vars

\* The runs that start from a Shortcut.
SpecShortcut == InitShortcut /\ [][Next]_vars

----------------------------------------------------------------------------
(* The inputs of the runs of Task.                                         *)

\* The longest shortcut column a run starts from.
MaxFieldLen == 4
\* The most keystrokes (of all alternatives together) of a Task a run starts
\* from.
MaxTaskKeys == 3

\* The characters of the shortcut column: two members' values, the comma that
\* separates alternatives (the value of COMMA too), the space, another
\* whitespace character, and one that is no member's value.
FieldAlphabet == {"A", "-", ",", " ", "\t", "x"}

FieldStrs == UNION {[1..n -> FieldAlphabet] : n \in 0..MaxFieldLen}

Descs == {<<>>, <<"B", "a", "c", "k">>}

ImportantStrs ==
    {<<"t", "r", "u", "e">>, <<"T", "r", "u", "e">>, <<"T", "R", "U", "E">>,
     <<"f", "a", "l", "s", "e">>, <<>>, <<"y", "e", "s">>, <<"1">>,
     <<" ", "t", "r", "u", "e">>}

\* The members the Tasks are built from, each with a value of length one.
TaskKeystrokes == {"A", "COMMA", "MINUS"}

ValidTaskNames(marks, names) ==
    \A i \in 1..Len(marks) :
        marks[i] \in {"S", "s"} => Len(KeystrokeValue[names[i]]) = 1

\* The members that start a group.
GroupStarts(marks) == {i \in 1..Len(marks) : marks[i] \in {"K", "R1", "S"}}

RECURSIVE Alternatives(_, _, _)
\* The Shortcuts of the members, a new one starting at each member of breaks.
Alternatives(marks, names, breaks) ==
    IF breaks = {}
    THEN <<Shortcut(Groups(marks, names, 1))>>
    ELSE LET b == CHOOSE x \in breaks : \A y \in breaks : x <= y
             n == Len(marks)
         IN  <<Shortcut(Groups(SubSeq(marks, 1, b - 1), SubSeq(names, 1, b - 1), 1))>>
             \o Alternatives(SubSeq(marks, b, n), SubSeq(names, b, n),
                             {x - b + 1 : x \in breaks \ {b}})

----------------------------------------------------------------------------
(* The runs of Task: a row is parsed, the Task written back and the row    *)
(* parsed again, or a Task is written and the row parsed back.             *)

InitRow ==
    \E d \in Descs, f \in FieldStrs, i \in ImportantStrs :
        /\ row = [desc |-> d, shortcut |-> f, important |-> i]
        /\ arg = row
        /\ task = None
        /\ reparsed = None
        /\ raised = None
        /\ pc = "parse"
        /\ shortcut = None /\ csv_str = <<>>
        /\ NoSheet /\ NoAppManager

InitTask ==
    \E n \in 1..MaxTaskKeys :
        \E marks \in {m \in [1..n -> Marks] : ValidMarks(m)} :
            \E names \in {ns \in [1..n -> TaskKeystrokes] : ValidTaskNames(marks, ns)} :
                \E breaks \in SUBSET (GroupStarts(marks) \ {1}), d \in Descs, i \in BOOLEAN :
                    /\ task = Task(d, Alternatives(marks, names, breaks), i)
                    /\ arg = task
                    /\ row = None
                    /\ reparsed = None
                    /\ raised = None
                    /\ pc = "to_csv_dict"
                    /\ shortcut = None /\ csv_str = <<>>
                    /\ NoSheet /\ NoAppManager

\* task = Task.parse(**row)
TaskParse ==
    /\ pc = "parse"
    /\ LET r == Task_parse(row.desc, row.shortcut, row.important)
       IN  IF IsException(r)
           THEN /\ raised' = r
                /\ task' = None
                /\ pc' = "done"
           ELSE /\ raised' = None
                /\ task' = r
                /\ pc' = "to_csv_dict"
    /\ UNCHANGED <<arg, row, reparsed, shortcut, csv_str, sheet_vars, app_vars>>

\* row = task.to_csv_dict()
ToCsvDict ==
    /\ pc = "to_csv_dict"
    /\ row' = to_csv_dict(task)
    /\ pc' = "reparse"
    /\ UNCHANGED <<arg, task, reparsed, raised, shortcut, csv_str, sheet_vars, app_vars>>

\* reparsed = Task.parse(**row)
TaskReparse ==
    /\ pc = "reparse"
    /\ LET r == Task_parse(row.desc, row.shortcut, row.important)
       IN  IF IsException(r)
           THEN raised' = r /\ reparsed' = None
           ELSE raised' = None /\ reparsed' = r
    /\ pc' = "done"
    /\ UNCHANGED <<arg, task, row, shortcut, csv_str, sheet_vars, app_vars>>

NextRow == TaskParse \/ ToCsvDict \/ TaskReparse

NextTask == ToCsvDict \/ TaskReparse

\* The runs that start from a row.
SpecRow == InitRow /\ [][NextRow]_vars

\* The runs that start from a Task.
SpecTask == InitTask /\ [][NextTask]_vars

----------------------------------------------------------------------------
(* What the claims speak of.                                               *)

\* The space-separated substrings of the str a run started from.
Substrings == Split(arg.s, " ")

\* The number of "-" in p.
Hyphens(p) == Cardinality({i \in 1..Len(p) : p[i] = "-"})

\* p is start "-" end for two members' values.
IsRangeText(p) ==
    /\ Hyphens(p) = 1
    /\ \E i \in 1..Len(p) :
        /\ p[i] = "-"
        /\ SubSeq(p, 1, i - 1) \in KeystrokeValues
        /\ SubSeq(p, i + 1, Len(p)) \in KeystrokeValues

\* Every character of p is a member's value.
IsSetText(p) == \A i \in 1..Len(p) : <<p[i]>> \in KeystrokeValues

\* p matches one of the three grammars of a group.
Matches(p) == p \in KeystrokeValues \/ IsRangeText(p) \/ IsSetText(p)

\* s is in canonical form: one or more substrings, none empty, each matching
\* a grammar, joined by single spaces.
Canonical(s) ==
    \A i \in 1..Len(Split(s, " ")) :
        Split(s, " ")[i] # <<>> /\ Matches(Split(s, " ")[i])

\* Shortcut.parse has returned a Shortcut.
Returned == pc # "parse" /\ raised = None

\* The group's encoding is that of no other group: a member; a range of two
\* members other than MINUS; a set whose concatenation is no member's value and
\* is not members' values joined by "-".
Unambiguous(g) ==
    \/ g.type = "Keystroke"
    \/ /\ g.type = "KeystrokeRange"
       /\ g.start.name # "MINUS"
       /\ g.end.name # "MINUS"
    \/ /\ g.type = "KeystrokeSet"
       /\ value(g) \notin KeystrokeValues
       /\ \E i \in 1..Len(Split(value(g), "-")) :
            Split(value(g), "-")[i] \notin KeystrokeValues

----------------------------------------------------------------------------
\* C1 as stated: every Shortcut of the grammar is parsed back from its
\* to_csv_str() as itself.
C1_RoundTrip ==
    pc = "done" => raised = None /\ shortcut = arg

\* C1, amended: a Shortcut of the grammar is parsed back from its to_csv_str()
\* as itself exactly when each of its groups is a Keystroke, a KeystrokeRange
\* with neither end MINUS, or a KeystrokeSet whose concatenated values are not
\* one member's value and not members' values joined by "-".
C1_RoundTripUnambiguous ==
    pc = "done" =>
        ((raised = None /\ shortcut = arg)
            <=> \A i \in 1..Len(arg.keystrokes) : Unambiguous(arg.keystrokes[i]))

\* A range and a set that came back as they were.
C1_Witness ==
    /\ pc = "done"
    /\ shortcut = arg
    /\ \E i, j \in 1..Len(arg.keystrokes) :
        /\ arg.keystrokes[i].type = "KeystrokeRange"
        /\ arg.keystrokes[j].type = "KeystrokeSet"

----------------------------------------------------------------------------
\* C5: in a Shortcut that Shortcut.parse returns, every space-separated
\* substring that is a member's value has become that member itself, not a
\* KeystrokeRange and not a KeystrokeSet.
C5_TokenFirst ==
    Returned =>
        \A i \in 1..Len(Substrings) :
            Substrings[i] \in KeystrokeValues =>
                /\ shortcut.keystrokes[i].type = "Keystroke"
                /\ KeystrokeValue[shortcut.keystrokes[i].name] = Substrings[i]

\* "F1 -" parsed as F1, MINUS.
C5_Witness ==
    /\ Returned
    /\ arg.s = <<"F", "1", " ", "-">>
    /\ shortcut = Shortcut(<<Member("F1"), Member("MINUS")>>)

----------------------------------------------------------------------------
\* C4: a str in canonical form is parsed, and the Shortcut written back as
\* exactly that str.
C4_CanonicalFixed ==
    (pc = "done" /\ Canonical(arg.s)) => (raised = None /\ csv_str = arg.s)

----------------------------------------------------------------------------
\* C6: when every substring matches a grammar, Shortcut.parse returns, and a
\* substring that is no member's value has become KeystrokeRange(a, b) exactly
\* when it holds one "-" with the value of a before it and that of b after it;
\* with two or more "-" it has become what the set grammar makes of it.
C6_RangeOrHandedOn ==
    (pc # "parse" /\ \A j \in 1..Len(Substrings) : Matches(Substrings[j])) =>
        /\ raised = None
        /\ \A i \in 1..Len(Substrings) :
            LET p == Substrings[i]
                g == shortcut.keystrokes[i]
            IN  p \notin KeystrokeValues =>
                    /\ IsRangeText(p) <=>
                        /\ g.type = "KeystrokeRange"
                        /\ value(g.start) \o <<"-">> \o value(g.end) = p
                    /\ Hyphens(p) >= 2 => g.type = "KeystrokeSet"

----------------------------------------------------------------------------
\* C7: when every substring matches a grammar, Shortcut.parse returns, and a
\* substring that is no member's value and no range, with every character a
\* member's value, has become the KeystrokeSet of those members in order.
C7_SetInOrder ==
    (pc # "parse" /\ \A j \in 1..Len(Substrings) : Matches(Substrings[j])) =>
        /\ raised = None
        /\ \A i \in 1..Len(Substrings) :
            LET p == Substrings[i]
                g == shortcut.keystrokes[i]
            IN  (p \notin KeystrokeValues /\ ~IsRangeText(p)) =>
                    /\ g.type = "KeystrokeSet"
                    /\ Len(g.keystrokes) = Len(p)
                    /\ \A k \in 1..Len(p) : value(g.keystrokes[k]) = <<p[k]>>

----------------------------------------------------------------------------
\* C8: when some substring matches none of the grammars, Shortcut.parse raises
\* the ValueError of the member lookup of the leftmost such substring, which
\* carries it; and no other kind of exception ever leaves Shortcut.parse.
C8_FirstLookupError ==
    pc # "parse" =>
        /\ raised.type # "TypeError"
        /\ (\E i \in 1..Len(Substrings) : ~Matches(Substrings[i])) =>
            \E i \in 1..Len(Substrings) :
                /\ ~Matches(Substrings[i])
                /\ \A j \in 1..(i - 1) : Matches(Substrings[j])
                /\ raised = ValueError(Substrings[i])

----------------------------------------------------------------------------
\* C9: Shortcut.parse raises for a str with an empty space-separated substring
\* (the empty str, spaces only, a leading, trailing or doubled space), and a
\* Shortcut it returns holds no KeystrokeSet without members.
C9_EmptyRejected ==
    pc # "parse" =>
        /\ (\E i \in 1..Len(Substrings) : Substrings[i] = <<>>) => raised # None
        /\ raised = None =>
            \A i \in 1..Len(shortcut.keystrokes) :
                shortcut.keystrokes[i] # KeystrokeSet(<<>>)

----------------------------------------------------------------------------
\* C2 as stated: every Task is parsed back from the columns of its
\* to_csv_dict() as itself.
C2_TaskRoundTrip ==
    pc = "done" => raised = None /\ reparsed = arg

----------------------------------------------------------------------------
\* C3: a Task that Task.parse returned, written with to_csv_dict() and parsed
\* again, is parsed as an equal Task.
C3_ParsedTaskRoundTrip ==
    (pc = "done" /\ task # None) => (raised = None /\ reparsed = task)

\* A row whose alternatives are separated by more than ", " came back.
C3_Witness ==
    /\ pc = "done"
    /\ arg.shortcut = <<"A", "\t", ",", "-">>
    /\ row.shortcut = <<"A", ",", " ", "-">>
    /\ reparsed = task
    /\ Len(task.shortcut) = 2

----------------------------------------------------------------------------
\* C10: Task.parse raises when the shortcut column is the empty str and when
\* every alternative raises in Shortcut.parse; a Task it returns has at least
\* one alternative, each the Shortcut that Shortcut.parse makes of its chord.
C10_SomeAlternative ==
    pc # "parse" =>
        LET chords == re_split(arg.shortcut)
        IN  /\ arg.shortcut = <<>> => task = None /\ raised # None
            /\ (\A i \in 1..Len(chords) : IsException(Shortcut_parse(chords[i])))
                    => task = None /\ raised # None
            /\ task # None =>
                /\ Len(task.shortcut) >= 1
                /\ Len(task.shortcut) = Len(chords)
                /\ \A i \in 1..Len(chords) : task.shortcut[i] = Shortcut_parse(chords[i])

----------------------------------------------------------------------------
(* A shortcut column read as chords and separators: sep[i] says that the   *)
(* character at i belongs to a separator (a comma with whitespace around   *)
(* it) and not to a chord.                                                 *)

Separations(s) ==
    {sep \in [1..Len(s) -> BOOLEAN] :
        \A i \in 1..Len(s) : sep[i] => (s[i] = "," \/ s[i] \in Whitespace)}

SepCommas(s, sep) == {i \in 1..Len(s) : sep[i] /\ s[i] = ","}

\* Every whitespace of a separator reaches the comma of its separator.
WellFormed(s, sep) ==
    \A i \in 1..Len(s) :
        (sep[i] /\ s[i] # ",") =>
            \E p \in SepCommas(s, sep) :
                \A k \in 1..Len(s) : ((i <= k /\ k <= p) \/ (p <= k /\ k <= i)) => sep[k]

Kth(P, k) == CHOOSE p \in P : Cardinality({q \in P : q < p}) = k - 1

\* The k-th chord: what is left between the commas of the separators
\* around it.
Chord(s, sep, k) ==
    LET P  == SepCommas(s, sep)
        lo == IF k = 1 THEN 1 ELSE Kth(P, k - 1) + 1
        hi == IF k = Cardinality(P) + 1 THEN Len(s) ELSE Kth(P, k) - 1
        at == {i \in lo..hi : ~sep[i]}
    IN  IF at = {} THEN <<>>
        ELSE SubSeq(s, CHOOSE i \in at : \A j \in at : i <= j,
                       CHOOSE i \in at : \A j \in at : j <= i)

Chords(s, sep) == [k \in 1..(Cardinality(SepCommas(s, sep)) + 1) |-> Chord(s, sep, k)]

AllParse(chords) == \A k \in 1..Len(chords) : ~IsException(Shortcut_parse(chords[k]))

Parsed(chords) == [k \in 1..Len(chords) |-> Shortcut_parse(chords[k])]

\* No chord holds a comma, none but the first begins with whitespace and
\* none but the last ends with whitespace.
Delimited(s, sep) ==
    LET chords == Chords(s, sep)
    IN  /\ \A i \in 1..Len(s) : s[i] = "," => sep[i]
        /\ \A k \in 1..Len(chords) :
            chords[k] # <<>> =>
                /\ k > 1 => chords[k][1] \notin Whitespace
                /\ k < Len(chords) => chords[k][Len(chords[k])] \notin Whitespace

\* C11 as stated: however the column is made of chords that Shortcut.parse
\* accepts and of separators (a comma with any whitespace around it),
\* Task.parse returns a Task whose alternatives are the parsed chords, in
\* the order of the chords.
C11_ChordsInOrder ==
    pc # "parse" =>
        \A sep \in Separations(arg.shortcut) :
            (WellFormed(arg.shortcut, sep) /\ AllParse(Chords(arg.shortcut, sep)))
                => (task # None /\ task.shortcut = Parsed(Chords(arg.shortcut, sep)))

\* What holds of Task.parse: the same of chords that hold no comma and have
\* no whitespace next to a separator.
C11_DelimitedChordsInOrder ==
    pc # "parse" =>
        \A sep \in Separations(arg.shortcut) :
            (/\ WellFormed(arg.shortcut, sep)
             /\ Delimited(arg.shortcut, sep)
             /\ AllParse(Chords(arg.shortcut, sep)))
                => (task # None /\ task.shortcut = Parsed(Chords(arg.shortcut, sep)))

----------------------------------------------------------------------------
\* The str is 'true' but for the case of its letters.
IsTrueText(s) ==
    /\ Len(s) = 4
    /\ s[1] \in {"t", "T"} /\ s[2] \in {"r", "R"}
    /\ s[3] \in {"u", "U"} /\ s[4] \in {"e", "E"}

\* C12: the Task that Task.parse returns is important exactly when the
\* important column is 'true' in any case of its letters, and when
\* Task.parse raises it is an alternative of the shortcut column that
\* raised, whatever the important column holds.
C12_ImportantIffTrue ==
    pc # "parse" =>
        /\ task # None => (task.important <=> IsTrueText(arg.important))
        /\ task = None =>
            \E k \in 1..Len(re_split(arg.shortcut)) :
                raised = Shortcut_parse(re_split(arg.shortcut)[k])

\* A row with 'TRUE' in the important column was parsed as important.
C12_Witness ==
    /\ pc = "to_csv_dict"
    /\ arg.important = <<"T", "R", "U", "E">>
    /\ task.important

----------------------------------------------------------------------------
(* neatsheets/sheet.py. The Task that sheet.py works with carries the      *)
(* section it is listed under: Task(section, desc, shortcut, important),   *)
(* as test_sheet_to_html builds it and to_html and build_sheet use it.     *)

\* Task(section, desc, shortcut, important), from the Task t without it.
SectionTask(section, t) ==
    [type |-> "Task", section |-> section, desc |-> t.desc, shortcut |-> t.shortcut,
     important |-> t.important]

SectionTaskOf(section, t) == IF IsException(t) THEN t ELSE SectionTask(section, t)

\* Task.parse(**row) of a row with the columns section, desc, shortcut and
\* important.
Task_parse_row(r) == SectionTaskOf(r.section, Task_parse(r.desc, r.shortcut, r.important))

\* Sheet(language, application, platform, tasks)
Sheet(language, application, platform, tasks) ==
    [type |-> "Sheet", language |-> language, application |-> application,
     platform |-> platform, tasks |-> tasks]

\* The rows that raise are left out and the others kept.
ParseRows_Skip(rows) ==
    [type |-> "tuple",
     items |-> SelectSeq([i \in 1..Len(rows) |-> Task_parse_row(rows[i])],
                         LAMBDA t : ~IsException(t))]

\* list(Task.parse(**row) for row in reader): the exception of the first row
\* that raises, else the Tasks in the order of the rows.
ParseRows(rows) == Gather([i \in 1..Len(rows) |-> Task_parse_row(rows[i])])

SheetOf(language, application, platform, ts) ==
    IF IsException(ts) THEN ts ELSE Sheet(language, application, platform, ts.items)

\* A CSV file with the header section,desc,shortcut,important: the rows its
\* DictReader yields.
CsvFile(rows) == [type |-> "file", rows |-> rows]

\* Sheet.build_sheet(language, application, platform), file being the CSV
\* file at csv_path, None when there is no such file.
build_sheet(language, application, platform, file) ==
    IF file = None THEN ValueError("Could not find sheet data")
    ELSE SheetOf(language, application, platform, ParseRows(file.rows))

\* The keys in the order of their last occurrence.
RECURSIVE dict_fromkeys_Last(_)
dict_fromkeys_Last(keys) ==
    IF keys = <<>> THEN <<>>
    ELSE LET d == dict_fromkeys_Last(Tail(keys))
         IN  IF \E i \in 1..Len(d) : d[i] = Head(keys) THEN d ELSE <<Head(keys)>> \o d

\* list(dict.fromkeys(keys)): each key is inserted when it is first met and
\* the dict keeps the order of insertion.
RECURSIVE dict_fromkeys(_)
dict_fromkeys(keys) ==
    IF keys = <<>> THEN <<>>
    ELSE LET d == dict_fromkeys(SubSeq(keys, 1, Len(keys) - 1))
             k == keys[Len(keys)]
         IN  IF \E i \in 1..Len(d) : d[i] = k THEN d ELSE Append(d, k)

\* [task for task in self.__tasks if task.section == section]
TasksOf(tasks, section) == SelectSeq(tasks, LAMBDA t : t.section = section)

RenderArgs(tasks, sections) ==
    [sections |-> sections,
     tasks |-> [section \in {sections[i] : i \in 1..Len(sections)} |-> TasksOf(tasks, section)]]

\* Sheet.to_html(self), up to the arguments of template.render: the list
\* sections and the dict tasks.
to_html(self) ==
    RenderArgs(self.tasks, dict_fromkeys([i \in 1..Len(self.tasks) |-> self.tasks[i].section]))

----------------------------------------------------------------------------
(* The runs of Sheet: build_sheet reads the rows and to_html groups the    *)
(* Tasks of the Sheet it returned.                                         *)

\* The most rows of a CSV file.
MaxRecords == 3

SectionStrs == {<<"A">>, <<"B">>}

\* Shortcut columns: one chord, two chords, and one that Shortcut.parse
\* rejects.
RowFields == {<<"A">>, <<"A", ",", "-">>, <<"x">>}

RowImportants == {<<"t", "r", "u", "e">>, <<"f", "a", "l", "s", "e">>}

Rows ==
    [section : SectionStrs, desc : {<<"B", "a", "c", "k">>}, shortcut : RowFields,
     important : RowImportants]

RowSeqs == UNION {[1..n -> Rows] : n \in 0..MaxRecords}

InitSheet ==
    \E file \in {CsvFile(rows) : rows \in RowSeqs} \cup {None} :
        /\ csv_file = file
        /\ arg = [language |-> "en", application |-> "Firefox", platform |-> "mac"]
        /\ sheet = None
        /\ rendered = None
        /\ raised = None
        /\ pc = "build_sheet"
        /\ shortcut = None /\ csv_str = <<>>
        /\ task = None /\ row = None /\ reparsed = None
        /\ NoAppManager

\* sheet = Sheet.build_sheet(language, application, platform)
BuildSheet ==
    /\ pc = "build_sheet"
    /\ LET r == build_sheet(arg.language, arg.application, arg.platform, csv_file)
       IN  IF IsException(r)
           THEN /\ raised' = r
                /\ sheet' = None
                /\ pc' = "done"
           ELSE /\ raised' = None
                /\ sheet' = r
                /\ pc' = "to_html"
    /\ UNCHANGED <<arg, csv_file, rendered, shortcut, csv_str, task, row, reparsed, app_vars>>

\* sheet.to_html()
ToHtml ==
    /\ pc = "to_html"
    /\ rendered' = to_html(sheet)
    /\ pc' = "done"
    /\ UNCHANGED <<arg, csv_file, sheet, raised, shortcut, csv_str, task, row, reparsed, app_vars>>

NextSheet == BuildSheet \/ ToHtml

SpecSheet == InitSheet /\ [][NextSheet]_vars

----------------------------------------------------------------------------
\* The places of the Tasks of a section in the list of Tasks.
Places(tasks, section) == {k \in 1..Len(tasks) : tasks[k].section = section}

----------------------------------------------------------------------------
\* The rows whose three Task columns make Task.parse raise.
Failing(rows) ==
    {i \in 1..Len(rows) :
        IsException(Task_parse(rows[i].desc, rows[i].shortcut, rows[i].important))}

----------------------------------------------------------------------------
(* neatsheets/app.py: class AppManager(metaclass=_AppManagerMeta).         *)
(* An object is known by its place in heap, 0 standing for no object.      *)
(* The thread that imports neatsheets.app runs the class statement, and    *)
(* with it _AppManagerMeta.__init__; the other threads can call            *)
(* AppManager(...) once the class statement has bound the name.            *)

\* The threads that call AppManager(...), beside the importing one.
Threads == {"T1", "T2"}

Importer == "import"

\* The most calls of AppManager(...) of one thread.
MaxCalls == 2

Path(name) == [type |-> "Path", name |-> name]

\* The path argument of a call: none given, or a Path.
PathArgs == {None, Path("p")}

\* AppManager.__init__(self, path=None); loads counts the runs of load_all
\* on the object.
AppManager(path) ==
    [type |-> "AppManager",
     path |-> IF path = None THEN Path("static/apps") ELSE path,
     loads |-> 0]

\* What a thread holds: where it is, the arguments of its call, the object
\* it constructed, what its last call returned, and how many calls it made.
Thread(at) == [pc |-> at, args |-> None, local |-> 0, result |-> 0, calls |-> 0]

InitApp ==
    /\ instances = [cls \in {} |-> 0]
    /\ heap = <<>>
    /\ threads = [t \in Threads \cup {Importer} |->
                    IF t = Importer THEN Thread("type_init") ELSE Thread("idle")]
    /\ defined = FALSE
    /\ pc = "threads"
    /\ raised = None
    /\ arg = None
    /\ shortcut = None /\ csv_str = <<>>
    /\ task = None /\ row = None /\ reparsed = None
    /\ NoSheet

call_vars == <<pc, arg, shortcut, csv_str, task, row, reparsed, sheet_vars>>

\* The class is bound as soon as type.__init__ has run, with no instance
\* made.
MetaInit_Lazy ==
    /\ threads[Importer].pc = "type_init"
    /\ threads' = [threads EXCEPT ![Importer].pc = "done"]
    /\ defined' = TRUE
    /\ UNCHANGED <<instances, heap, raised, call_vars>>

\* _AppManagerMeta.__init__: type.__init__(cls, name, bases, attrs), then the
\* call cls() begins.
MetaInit ==
    /\ threads[Importer].pc = "type_init"
    /\ threads' = [threads EXCEPT ![Importer].pc = "check", ![Importer].args = None]
    /\ UNCHANGED <<instances, heap, defined, raised, call_vars>>

\* A thread calls AppManager(path).
Call(t, path) ==
    /\ defined
    /\ threads[t].pc = "idle"
    /\ threads[t].calls < MaxCalls
    /\ threads' = [threads EXCEPT ![t].pc = "check", ![t].args = path,
                                  ![t].calls = @ + 1]
    /\ UNCHANGED <<instances, heap, defined, raised, call_vars>>

\* if cls not in _AppManagerMeta.__instance:
Check(t) ==
    /\ threads[t].pc = "check"
    /\ threads' = [threads EXCEPT ![t].pc =
                      IF "AppManager" \in DOMAIN instances THEN "return" ELSE "construct"]
    /\ UNCHANGED <<instances, heap, defined, raised, call_vars>>

\* type.__call__(cls, *args, **kwargs)
Construct(t) ==
    /\ threads[t].pc = "construct"
    /\ heap' = Append(heap, AppManager(threads[t].args))
    /\ threads' = [threads EXCEPT ![t].pc = "store", ![t].local = Len(heap) + 1]
    /\ UNCHANGED <<instances, defined, raised, call_vars>>

\* _AppManagerMeta.__instance[cls] = ...
Store(t) ==
    /\ threads[t].pc = "store"
    /\ instances' = [cls \in DOMAIN instances \cup {"AppManager"} |->
                        IF cls = "AppManager" THEN threads[t].local ELSE instances[cls]]
    /\ threads' = [threads EXCEPT ![t].pc = "return"]
    /\ UNCHANGED <<heap, defined, raised, call_vars>>

\* return _AppManagerMeta.__instance[cls]
Return(t) ==
    /\ threads[t].pc = "return"
    /\ threads' = [threads EXCEPT ![t].result = instances["AppManager"],
                                  ![t].pc = IF t = Importer THEN "load_all" ELSE "idle"]
    /\ UNCHANGED <<instances, heap, defined, raised, call_vars>>

\* cls().load_all() of _AppManagerMeta.__init__ runs through.
LoadAll ==
    /\ threads[Importer].pc = "load_all"
    /\ heap' = [heap EXCEPT ![threads[Importer].result].loads = @ + 1]
    /\ threads' = [threads EXCEPT ![Importer].pc = "bind"]
    /\ UNCHANGED <<instances, defined, raised, call_vars>>

\* cls().load_all() raises (a directory that is no Language, an app that
\* does not load): the class statement fails and AppManager is never bound.
LoadAllRaises ==
    /\ threads[Importer].pc = "load_all"
    /\ heap' = [heap EXCEPT ![threads[Importer].result].loads = @ + 1]
    /\ threads' = [threads EXCEPT ![Importer].pc = "failed"]
    /\ raised' = [type |-> "Exception"]
    /\ UNCHANGED <<instances, defined, call_vars>>

\* The class statement binds the name AppManager.
Bind ==
    /\ threads[Importer].pc = "bind"
    /\ defined' = TRUE
    /\ threads' = [threads EXCEPT ![Importer].pc = "done"]
    /\ UNCHANGED <<instances, heap, raised, call_vars>>

\* webserver.main(): AppManager.get_instance() finds no such attribute.
Main(t) ==
    /\ defined
    /\ threads[t].pc = "idle"
    /\ threads' = [threads EXCEPT ![t].pc = "AttributeError"]
    /\ UNCHANGED <<instances, heap, defined, raised, call_vars>>

NextApp ==
    \/ MetaInit
    \/ \E t \in Threads, path \in PathArgs : Call(t, path)
    \/ \E t \in Threads \cup {Importer} : Check(t) \/ Construct(t) \/ Store(t) \/ Return(t)
    \/ LoadAll
    \/ LoadAllRaises
    \/ Bind
    \/ \E t \in Threads : Main(t)

SpecApp == InitApp /\ [][NextApp]_vars

----------------------------------------------------------------------------
\* C15: however the calls AppManager(...) of the threads interleave, at most
\* one AppManager is constructed, every call that returned has returned that
\* one, which keeps the path of its construction whatever path later calls
\* give, and load_all has run on it at most once.
C15_OneInstance ==
    /\ Len(heap) <= 1
    /\ \A t \in Threads \cup {Importer} :
        threads[t].result # 0 => (Len(heap) = 1 /\ threads[t].result = 1)
    /\ \A i \in 1..Len(heap) :
        /\ heap[i].loads <= 1
        /\ heap[i].path = Path("static/apps")

\* Two threads called AppManager(Path) at once; one has returned the
\* instance of the class statement and the other is about to.
C15_Witness ==
    /\ threads["T1"].args = Path("p")
    /\ threads["T1"].pc = "idle"
    /\ threads["T1"].result = 1
    /\ threads["T2"].args = Path("p")
    /\ threads["T2"].pc = "return"
    /\ Len(heap) = 1
    /\ heap[1].loads = 1
    /\ heap[1].path = Path("static/apps")

====
